---- MODULE Spec2Model ----
(***************************************************************************)
(* Model of backend/generate-docs/index.py: the HTTP handler that turns a  *)
(* Figma frame into a Markdown table.  Strings are sequences of one-       *)
(* character strings; JSON objects are TLA+ functions whose DOMAIN is the  *)
(* set of keys that are present.                                           *)
(***************************************************************************)
EXTENDS Integers, Sequences, FiniteSets, TLC

VARIABLES
    pc,            \* position of the handler / of the function under check
    event,         \* handler: the incoming event (httpMethod, body)
    env,           \* handler: os.environ (the two credentials)
    figma_data,    \* handler: result of fetch_figma_node
    elements,      \* handler / enricher: the element list
    response,      \* handler: the HTTP response returned
    calls,         \* number of outbound calls started, per API
    inflight,      \* set of outbound calls currently blocking
    name,          \* sanitize_name: the input name
    sanitized,     \* sanitize_name(name)
    resanitized,   \* sanitize_name(sanitize_name(name))
    node,          \* extract_ui_elements: the root node
    reply          \* outcome of each outbound call, once it has returned

vars == <<pc, event, env, figma_data, elements, response, calls, inflight,
          name, sanitized, resanitized, node, reply>>

\* Value of a variable that the specification at hand does not use.
Idle == "idle"

(***************************************************************************)
(* Bounds of the model.                                                    *)
(***************************************************************************)
MaxNameLen == 4
MaxNodes == 3
MaxReplyLen == 4

(***************************************************************************)
(* Characters and strings.                                                 *)
(***************************************************************************)
UpperChars == <<"A","B","C","D","E","F","G","H","I","J","K","L","M",
                "N","O","P","Q","R","S","T","U","V","W","X","Y","Z">>
LowerChars == <<"a","b","c","d","e","f","g","h","i","j","k","l","m",
                "n","o","p","q","r","s","t","u","v","w","x","y","z">>
DigitChars == <<"0","1","2","3","4","5","6","7","8","9">>

Range(s) == {s[i] : i \in DOMAIN s}

\* The character class [a-zA-Z0-9_] of the first substitution.
IsWordChar(c) ==
    c \in Range(UpperChars) \cup Range(LowerChars) \cup Range(DigitChars) \cup {"_"}

\* str.lower() on one character.
LowerChar(c) ==
    IF \E i \in DOMAIN UpperChars : UpperChars[i] = c
    THEN LowerChars[CHOOSE i \in DOMAIN UpperChars : UpperChars[i] = c]
    ELSE c

\* str.lower()
Lower(s) == [i \in DOMAIN s |-> LowerChar(s[i])]

\* needle in hay (Python substring test)
Contains(hay, needle) ==
    \E i \in 0..(Len(hay) - Len(needle)) :
        \A j \in 1..Len(needle) : hay[i + j] = needle[j]

\* re.sub(r'[^a-zA-Z0-9_]', '_', name)
ReplaceNonWord(s) == [i \in DOMAIN s |-> IF IsWordChar(s[i]) THEN s[i] ELSE "_"]

\* re.sub(r'_+', '_', s): every maximal run of underscores becomes one.
RECURSIVE CollapseUnderscores(_)
CollapseUnderscores(s) ==
    IF Len(s) <= 1 THEN s
    ELSE IF s[1] = "_" /\ s[2] = "_" THEN CollapseUnderscores(Tail(s))
    ELSE <<s[1]>> \o CollapseUnderscores(Tail(s))

\* s.strip('_')
StripUnderscores(s) ==
    LET keep == {i \in DOMAIN s : s[i] # "_"}
    IN  IF keep = {} THEN <<>>
        ELSE LET first == CHOOSE i \in keep : \A j \in keep : i <= j
                 last  == CHOOSE i \in keep : \A j \in keep : j <= i
             IN  SubSeq(s, first, last)

\* The literal fallback 'element'.
ElementLiteral == <<"e","l","e","m","e","n","t">>

\* A slip in the order of the two substitutions: runs are collapsed before
\* the foreign characters are turned into underscores.
sanitize_name_collapse_first(nm) ==
    LET s == Lower(StripUnderscores(ReplaceNonWord(CollapseUnderscores(nm))))
    IN  IF s = <<>> THEN ElementLiteral ELSE s

sanitize_name(nm) ==
    LET s == Lower(StripUnderscores(CollapseUnderscores(ReplaceNonWord(nm))))
    IN  IF s = <<>> THEN ElementLiteral ELSE s

(***************************************************************************)
(* Design nodes.  A node is a function from the keys it carries to their   *)
(* values; dict.get(key, default) reads a key that may be absent.          *)
(***************************************************************************)
Get(d, key, default) == IF key \in DOMAIN d THEN d[key] ELSE default

Unnamed == <<"U","n","n","a","m","e","d">>
ButtonWord == <<"b","u","t","t","o","n">>
BtnWord == <<"b","t","n">>

ContainerTypes == {"FRAME", "GROUP", "COMPONENT", "INSTANCE"}
IconTypes == {"VECTOR", "BOOLEAN_OPERATION", "STAR", "LINE", "ELLIPSE"}

\* The button test without the lower-casing of the name.
is_button_like_case_sensitive(n) ==
    LET nm == Get(n, "name", <<>>)
        has_rounded_corners == Get(n, "cornerRadius", 0) > 0
    IN  Contains(nm, ButtonWord) \/ Contains(nm, BtnWord) \/ has_rounded_corners

is_button_like(n) ==
    LET nm == Lower(Get(n, "name", <<>>))
        has_rounded_corners == Get(n, "cornerRadius", 0) > 0
    IN  Contains(nm, ButtonWord) \/ Contains(nm, BtnWord) \/ has_rounded_corners

\* The dict appended to `elements` for an emitted node.
MakeElement(id, type, n) ==
    [id |-> id, type |-> type,
     name |-> sanitize_name(Get(n, "name", Unnamed)),
     raw_name |-> Get(n, "name", Unnamed),
     figma_type |-> Get(n, "type", "")]

\* A counter that is read but never advanced.
NextCounterStuck(counter) == counter

\* counter[0] += 1
NextCounter(counter) == counter + 1

\* The walk with its two accumulators; the result is the pair of their
\* values after the call (both are mutated in place by the code).
RECURSIVE ExtractInto(_, _, _)
RECURSIVE ExtractChildren(_, _, _)

\* for child in children: extract_ui_elements(child, elements, counter)
ExtractChildren(children, elems, counter) ==
    IF children = <<>> THEN [elements |-> elems, counter |-> counter]
    ELSE LET r == ExtractInto(Head(children), elems, counter)
         IN  ExtractChildren(Tail(children), r.elements, r.counter)

ExtractInto(n, elems, counter) ==
    LET node_type == Get(n, "type", "")
    IN  IF node_type \in ContainerTypes
        THEN ExtractChildren(Get(n, "children", <<>>), elems, counter)
        ELSE IF node_type = "TEXT"
        THEN [elements |-> Append(elems, MakeElement(counter, "text", n)),
              counter |-> NextCounter(counter)]
        ELSE IF node_type = "RECTANGLE"
        THEN [elements |->
                 IF is_button_like(n)
                 THEN Append(elems, MakeElement(counter, "button", n))
                 ELSE Append(elems, MakeElement(counter, "card", n)),
              counter |-> NextCounter(counter)]
        ELSE IF node_type \in IconTypes
        THEN [elements |-> Append(elems, MakeElement(counter, "icon", n)),
              counter |-> NextCounter(counter)]
        ELSE ExtractChildren(Get(n, "children", <<>>), elems, counter)

\* extract_ui_elements(node) as the handler calls it: both accumulators are
\* None and are created fresh.
extract_ui_elements(n) == ExtractInto(n, <<>>, 1).elements

(***************************************************************************)
(* Input trees for the extractor.                                          *)
(***************************************************************************)
NameSubmitButton == <<"S","u","b","m","i","t"," ","B","u","t","t","o","n">>
NamePhoto == <<"P","h","o","t","o">>
NameBTN == <<"B","T","N">>
NameTitle == <<"T","i","t","l","e">>
NameIcon == <<"I","c","o","n">>
NameMain == <<"M","a","i","n">>

\* Nodes that are given children: the four container types, an unknown
\* type, and a TEXT node (whose children the extractor never visits).
InnerLabels ==
    {[type |-> t, name |-> NameMain] : t \in {"FRAME", "COMPONENT", "TEXT"}}
    \cup {[type |-> t] : t \in {"GROUP", "INSTANCE", "SLICE"}}

\* label plus an ordered list of children
WithChildren(label, kids) ==
    [k \in DOMAIN label \cup {"children"} |->
        IF k = "children" THEN kids ELSE label[k]]

\* Nodes without children: the emitted shapes (no children key), a node
\* without a type, and a FRAME whose children list is empty.
LeafNodes ==
    {[type |-> "TEXT", name |-> NameTitle]}
    \cup {[type |-> "RECTANGLE", name |-> nm, cornerRadius |-> r] :
             nm \in {NameSubmitButton, NamePhoto}, r \in {0, 8}}
    \cup {[type |-> "RECTANGLE", name |-> NameBTN], [type |-> "RECTANGLE"]}
    \cup {[type |-> t, name |-> NameIcon] : t \in IconTypes}
    \cup {[name |-> NameMain]}
    \cup {WithChildren([type |-> "FRAME", name |-> NameMain], <<>>)}

\* TreesOf(n): the trees with exactly n nodes; ForestsOf(n): the sequences
\* of trees with n nodes in total.
RECURSIVE TreesOf(_)
RECURSIVE ForestsOf(_)

TreesOf(n) ==
    IF n = 1 THEN LeafNodes
    ELSE {WithChildren(l, f) : l \in InnerLabels, f \in ForestsOf(n - 1)}

ForestsOf(n) ==
    IF n = 0 THEN {<<>>}
    ELSE UNION {{<<t>> \o f : t \in TreesOf(k), f \in ForestsOf(n - k)} : k \in 1..n}

TreesUpTo(n) == UNION {TreesOf(k) : k \in 1..n}

(***************************************************************************)
(* The language-model reply.  The message content is a sequence of tokens: *)
(* the two square brackets, a run of commentary holding no bracket, and    *)
(* JSON values without brackets of their own (objects, numbers).  The      *)
(* separators between the items of an array are left implicit.             *)
(***************************************************************************)
LBracket == [tok |-> "["]
RBracket == [tok |-> "]"]
Commentary == [tok |-> "text"]
JsonNumber == [tok |-> "number"]
JsonObject(fields) == [tok |-> "object", fields |-> fields]
JsonArray(items) == [tok |-> "array", items |-> items]
EmptyDict == [k \in {} |-> 0]

\* re.search(r'\[[\s\S]*\]', content): the leftmost '[' that has a ']'
\* after it, and, the star being greedy, everything up to the last ']'.
BracketMatch(content) ==
    LET opens == {i \in DOMAIN content : content[i] = LBracket}
        closes == {i \in DOMAIN content : content[i] = RBracket}
        starts == {i \in opens : \E j \in closes : i < j}
    IN  IF starts = {} THEN [found |-> FALSE]
        ELSE LET first == CHOOSE i \in starts : \A k \in starts : i <= k
                 last == CHOOSE j \in closes : \A k \in closes : k <= j
             IN  [found |-> TRUE, group |-> SubSeq(content, first, last)]

\* call_deepseek_api on the outcome of the HTTP exchange: an outcome other
\* than a message content makes urlopen, the decoding or the indexing of
\* the response raise.
call_deepseek_api(outcome) ==
    IF outcome.kind # "content" THEN [raised |-> TRUE]
    ELSE LET json_match == BracketMatch(outcome.content)
         IN  [raised |-> FALSE,
              text |-> IF json_match.found THEN json_match.group
                       ELSE outcome.content]

\* json.loads on a token sequence: exactly one JSON value, arrays nested.
ParseFail == [ok |-> FALSE]

RECURSIVE ParseValue(_, _)
RECURSIVE ParseItems(_, _, _)

ParseValue(t, i) ==
    IF i > Len(t) THEN ParseFail
    ELSE IF t[i] = LBracket THEN ParseItems(t, i + 1, <<>>)
    ELSE IF t[i].tok \in {"object", "number"}
    THEN [ok |-> TRUE, value |-> t[i], next |-> i + 1]
    ELSE ParseFail

ParseItems(t, i, acc) ==
    IF i > Len(t) THEN ParseFail
    ELSE IF t[i] = RBracket
    THEN [ok |-> TRUE, value |-> JsonArray(acc), next |-> i + 1]
    ELSE LET r == ParseValue(t, i)
         IN  IF r.ok THEN ParseItems(t, r.next, Append(acc, r.value))
             ELSE ParseFail

json_loads(t) ==
    LET r == ParseValue(t, 1)
    IN  IF r.ok /\ r.next = Len(t) + 1 THEN [ok |-> TRUE, value |-> r.value]
        ELSE ParseFail

\* {item['id']: item for item in ai_data}: a later item replaces an earlier
\* one with the same id; an item that cannot be indexed by 'id' raises.
RECURSIVE AiMapOfItems(_, _)
AiMapOfItems(items, acc) ==
    IF items = <<>> THEN [raised |-> FALSE, map |-> acc]
    ELSE LET item == Head(items)
         IN  IF item.tok = "object" /\ "id" \in DOMAIN item.fields
             THEN AiMapOfItems(Tail(items),
                      [k \in DOMAIN acc \cup {item.fields.id} |->
                          IF k = item.fields.id THEN item.fields ELSE acc[k]])
             ELSE [raised |-> TRUE]

\* The comprehension over whatever json.loads returned: a list is walked
\* item by item, a dict by its keys (strings, which cannot be indexed by
\* 'id'), a number cannot be iterated at all.
BuildAiMap(ai_data) ==
    IF ai_data.tok = "array" THEN AiMapOfItems(ai_data.items, EmptyDict)
    ELSE IF ai_data.tok = "object" /\ DOMAIN ai_data.fields = {}
    THEN [raised |-> FALSE, map |-> EmptyDict]
    ELSE [raised |-> TRUE]

\* The texts the enricher writes.  "Element" stands for the Russian word
\* of the source's literals.
FallbackDescription(e) ==
    [template |-> "Element {type}: {raw_name}", type |-> e.type, raw_name |-> e.raw_name]
FallbackLogic == [text |-> "basic interaction with the element"]

\* The default of the per-element lookup, with the raw name added to it.
DefaultDescriptionWithRawName(e) == FallbackDescription(e)

DefaultDescription(e) == [template |-> "Element {type}", type |-> e.type]
DefaultLogic == [text |-> "standard interaction"]

\* element['description'] = ...; element['logic'] = ...
WithTexts(e, description, logic) ==
    [k \in DOMAIN e \cup {"description", "logic"} |->
        IF k = "description" THEN description
        ELSE IF k = "logic" THEN logic
        ELSE e[k]]

\* The except branch.
ApplyFallback(elems) ==
    [i \in DOMAIN elems |-> WithTexts(elems[i], FallbackDescription(elems[i]), FallbackLogic)]

\* The loop of the try branch.
ApplyAiMap(elems, ai_map) ==
    [i \in DOMAIN elems |->
        LET ai_info == Get(ai_map, elems[i].id, EmptyDict)
        IN  WithTexts(elems[i],
                      Get(ai_info, "description", DefaultDescription(elems[i])),
                      Get(ai_info, "logic", DefaultLogic))]

\* The try/except of enhance_with_deepseek on a non-empty list, given the
\* outcome of the one call it makes.
EnhanceWithReply(elems, outcome) ==
    LET ai_response == call_deepseek_api(outcome)
    IN  IF ai_response.raised THEN ApplyFallback(elems)
        ELSE LET ai_data == json_loads(ai_response.text)
             IN  IF ~ai_data.ok THEN ApplyFallback(elems)
                 ELSE LET ai_map == BuildAiMap(ai_data.value)
                      IN  IF ai_map.raised THEN ApplyFallback(elems)
                          ELSE ApplyAiMap(elems, ai_map.map)

\* The early return for an empty list left out.
NeedsNoCallNever(elems) == FALSE

\* if not elements: return elements
NeedsNoCall(elems) == elems = <<>>

(***************************************************************************)
(* Replies and element lists for the enricher.                             *)
(***************************************************************************)
ReplyTokens ==
    {LBracket, RBracket, Commentary, JsonNumber,
     JsonObject(EmptyDict),
     JsonObject([id |-> 1, description |-> [ai |-> "d1"], logic |-> [ai |-> "l1"]]),
     JsonObject([id |-> 2, description |-> [ai |-> "d2"], logic |-> [ai |-> "l2"]]),
     JsonObject([id |-> 1, logic |-> [ai |-> "l3"]])}

Contents(n) == UNION {[1..k -> ReplyTokens] : k \in 0..n}

\* What the exchange with the completion API can end in.
Outcomes(n) ==
    {[kind |-> k] : k \in {"http_error", "url_error", "bad_response"}}
    \cup {[kind |-> "content", content |-> c] : c \in Contents(n)}

FrameOf(kids) == WithChildren([type |-> "FRAME", name |-> NameMain], kids)
TextTitle == [type |-> "TEXT", name |-> NameTitle]
RectBTN == [type |-> "RECTANGLE", name |-> NameBTN]

EnricherInputs ==
    {extract_ui_elements(t) :
        t \in {FrameOf(<<>>), FrameOf(<<TextTitle>>), FrameOf(<<TextTitle, RectBTN>>)}}

(***************************************************************************)
(* The URL parser.                                                         *)
(***************************************************************************)
AlnumChars == Range(UpperChars) \cup Range(LowerChars) \cup Range(DigitChars)
NodeIdChars == Range(DigitChars) \cup {"%", "-"}
WhitespaceChars == {" "}

FigmaFilePrefix == <<"f","i","g","m","a",".","c","o","m","/","f","i","l","e","/">>
FigmaDesignPrefix == <<"f","i","g","m","a",".","c","o","m","/","d","e","s","i","g","n","/">>
NodeIdPrefix == <<"n","o","d","e","-","i","d","=">>

\* lit occurs in s at position i
MatchAt(s, i, lit) ==
    /\ i + Len(lit) - 1 <= Len(s)
    /\ \A j \in 1..Len(lit) : s[i + j - 1] = lit[j]

\* the longest run of characters of class starting at position i (a + or
\* * of a character class is greedy)
RunFrom(s, i, class) ==
    LET ends == {k \in (i - 1)..Len(s) : \A j \in i..k : s[j] \in class}
        last == CHOOSE k \in ends : \A m \in ends : m <= k
    IN  SubSeq(s, i, last)

\* re.search of a literal prefix followed by a non-empty run of class:
\* group 1 of the leftmost match, or None.
SearchGroup(s, prefixes, class) ==
    LET hits == {<<i, p>> \in (DOMAIN s) \X prefixes :
                    /\ MatchAt(s, i, p)
                    /\ i + Len(p) <= Len(s)
                    /\ s[i + Len(p)] \in class}
    IN  IF hits = {} THEN [matched |-> FALSE]
        ELSE LET h == CHOOSE x \in hits : \A y \in hits : x[1] <= y[1]
             IN  [matched |-> TRUE, group |-> RunFrom(s, h[1] + Len(h[2]), class)]

\* str.replace('-', ':')
HyphensToColons(s) == [i \in DOMAIN s |-> IF s[i] = "-" THEN ":" ELSE s[i]]

\* str.strip()
Strip(s) ==
    LET keep == {i \in DOMAIN s : s[i] \notin WhitespaceChars}
    IN  IF keep = {} THEN <<>>
        ELSE LET first == CHOOSE i \in keep : \A j \in keep : i <= j
                 last  == CHOOSE i \in keep : \A j \in keep : j <= i
             IN  SubSeq(s, first, last)

\* The pair (file_key, node_id); `matched` is FALSE where the code has None.
parse_figma_url(url) ==
    LET file_match == SearchGroup(url, {FigmaFilePrefix, FigmaDesignPrefix}, AlnumChars)
        node_match == SearchGroup(url, {NodeIdPrefix}, NodeIdChars)
    IN  [file_key |-> file_match,
         node_id |-> IF node_match.matched
                     THEN [matched |-> TRUE, group |-> HyphensToColons(node_match.group)]
                     ELSE node_match]

(***************************************************************************)
(* The handler up to its first outbound call.                              *)
(***************************************************************************)
ErrorResponse(status, message) == [statusCode |-> status, error |-> message]

\* The response of the except clause of the handler.
InternalError(exception) ==
    [statusCode |-> 500, error |-> "Internal error", exception |-> exception]

\* Python truth of an environment value: None and '' are false.
Configured(e, key) == key \in DOMAIN e /\ e[key] # ""

\* if not deepseek_key, with the test left out
MissingDeepseekKeyIgnored(e) == FALSE

\* if not deepseek_key
MissingDeepseekKey(e) == ~Configured(e, "DEEPSEEK_API_KEY")

\* if not figma_token
MissingFigmaToken(e) == ~Configured(e, "FIGMA_ACCESS_TOKEN")

\* json.loads(event.get('body', '{}')) followed by
\* body_data.get('figmaUrl', '').strip(): the stripped URL, or the
\* exception raised on the way.  A body is given by what json.loads makes
\* of it.
DefaultBody == [py |-> "str", json |-> [ok |-> TRUE, value |-> [type |-> "dict", fields |-> EmptyDict]]]
EmptyStr == [type |-> "str", chars |-> <<>>]

ReadFigmaUrl(ev) ==
    LET body == Get(ev, "body", DefaultBody)
    IN  IF body.py # "str" THEN [raised |-> TRUE, exception |-> "TypeError"]
        ELSE IF ~body.json.ok THEN [raised |-> TRUE, exception |-> "JSONDecodeError"]
        ELSE IF body.json.value.type # "dict"
        THEN [raised |-> TRUE, exception |-> "AttributeError"]
        ELSE LET v == Get(body.json.value.fields, "figmaUrl", EmptyStr)
             IN  IF v.type # "str" THEN [raised |-> TRUE, exception |-> "AttributeError"]
                 ELSE [raised |-> FALSE, figma_url |-> Strip(v.chars)]

\* Lines 15-76: either the response returned before any outbound call, or
\* the arguments of fetch_figma_node.
BeforeFetch(ev, e) ==
    LET method == Get(ev, "httpMethod", "GET")
    IN  IF method = "OPTIONS" THEN [respond |-> TRUE, response |-> [statusCode |-> 200, body |-> ""]]
        ELSE IF method # "POST"
        THEN [respond |-> TRUE, response |-> ErrorResponse(405, "Method not allowed")]
        ELSE LET u == ReadFigmaUrl(ev)
             IN  IF u.raised THEN [respond |-> TRUE, response |-> InternalError(u.exception)]
                 ELSE IF u.figma_url = <<>>
                 THEN [respond |-> TRUE,
                       response |-> ErrorResponse(400, "Figma URL is required")]
                 ELSE LET parsed == parse_figma_url(u.figma_url)
                      IN  IF ~parsed.file_key.matched \/ ~parsed.node_id.matched
                          THEN [respond |-> TRUE,
                                response |-> ErrorResponse(400, "Invalid Figma URL format")]
                          ELSE IF MissingFigmaToken(e)
                          THEN [respond |-> TRUE,
                                response |-> ErrorResponse(500, "FIGMA_ACCESS_TOKEN not configured")]
                          ELSE IF MissingDeepseekKey(e)
                          THEN [respond |-> TRUE,
                                response |-> ErrorResponse(500, "DEEPSEEK_API_KEY not configured")]
                          ELSE [respond |-> FALSE,
                                file_key |-> parsed.file_key.group,
                                node_id |-> parsed.node_id.group]

(***************************************************************************)
(* The node fetcher, the renderer and the rest of the handler.             *)
(***************************************************************************)
\* fetch_figma_node on the outcome of its one GET: only HTTPError is
\* caught; any other exception leaves the function.
fetch_figma_node(node_id, outcome) ==
    IF outcome.kind = "http_error" THEN [raised |-> FALSE, node_data |-> EmptyDict]
    ELSE IF outcome.kind = "url_error" THEN [raised |-> TRUE, exception |-> "URLError"]
    ELSE IF outcome.kind = "bad_json" THEN [raised |-> TRUE, exception |-> "JSONDecodeError"]
    ELSE LET nodes == Get(outcome.data, "nodes", EmptyDict)
         IN  [raised |-> FALSE,
              node_data |-> Get(Get(nodes, node_id, EmptyDict), "document", EmptyDict)]

\* if not figma_data
IsEmptyMapping(d) == DOMAIN d = {}

UIScreen == <<"U","I"," ","S","c","r","e","e","n">>

\* figma_data.get('name', 'UI Screen')
FrameName(data) == Get(data, "name", UIScreen)

\* generate_markdown: the heading and one row per element, in list order.
generate_markdown(elems, frame_name) ==
    [heading |-> frame_name,
     rows |-> [i \in DOMAIN elems |->
                 [id |-> elems[i].id, type |-> elems[i].type, name |-> elems[i].name,
                  description |-> Get(elems[i], "description", [text |-> ""]),
                  logic |-> Get(elems[i], "logic", [text |-> ""])]]]

\* The 200 response of lines 96-105.
Success(elems, frame_name) ==
    [statusCode |-> 200,
     markdown |-> generate_markdown(elems, frame_name),
     frameName |-> frame_name,
     elementsCount |-> Len(elems)]

(***************************************************************************)
(* Requests, environments and upstream outcomes of the handler.            *)
(***************************************************************************)
UrlFile == <<"h","t","t","p","s",":","/","/","f","i","g","m","a",".","c","o","m","/","f","i","l","e","/","A","B","1","/","T","?","n","o","d","e","-","i","d","=","1","-","2">>
UrlDesign == <<"f","i","g","m","a",".","c","o","m","/","d","e","s","i","g","n","/","A","b","2","?","n","o","d","e","-","i","d","=","3","-","4">>
UrlPadded == <<" ","f","i","g","m","a",".","c","o","m","/","f","i","l","e","/","A","B","1","?","n","o","d","e","-","i","d","=","1","-","2"," ">>
UrlNoNode == <<"f","i","g","m","a",".","c","o","m","/","f","i","l","e","/","A","B","1">>
UrlNoFile == <<"e","x","a","m","p","l","e",".","c","o","m","/","?","n","o","d","e","-","i","d","=","1","-","2">>
UrlProto == <<"f","i","g","m","a",".","c","o","m","/","p","r","o","t","o","/","A","B","1","?","n","o","d","e","-","i","d","=","1","-","2">>
UrlNoKey == <<"f","i","g","m","a",".","c","o","m","/","f","i","l","e","/","?","n","o","d","e","-","i","d","=","1","-","2">>
UrlBlank == <<" ", " ">>

Urls == {<<>>, UrlBlank, UrlFile, UrlDesign, UrlPadded, UrlNoNode, UrlNoFile,
         UrlProto, UrlNoKey}

JsonBody(value) == [py |-> "str", json |-> [ok |-> TRUE, value |-> value]]
DictBody(fields) == JsonBody([type |-> "dict", fields |-> fields])

Bodies ==
    {[py |-> "None"], [py |-> "str", json |-> [ok |-> FALSE]],
     JsonBody([type |-> "null"]), JsonBody([type |-> "list"]),
     DictBody(EmptyDict),
     DictBody([figmaUrl |-> [type |-> "int"]]),
     DictBody([figmaUrl |-> [type |-> "null"]])}
    \cup {DictBody([figmaUrl |-> [type |-> "str", chars |-> u]]) : u \in Urls}

Methods == {"OPTIONS", "GET", "POST"}

Events ==
    {[httpMethod |-> m, body |-> b] : m \in Methods, b \in Bodies}
    \cup {[httpMethod |-> m] : m \in Methods}
    \cup {[body |-> b] : b \in Bodies}
    \cup {EmptyDict}

EnvValues == {"", "secret"}

Envs ==
    {[FIGMA_ACCESS_TOKEN |-> f, DEEPSEEK_API_KEY |-> d] : f \in EnvValues, d \in EnvValues}
    \cup {[FIGMA_ACCESS_TOKEN |-> f] : f \in EnvValues}
    \cup {[DEEPSEEK_API_KEY |-> d] : d \in EnvValues}
    \cup {EmptyDict}

HandlerTrees ==
    {FrameOf(<<>>), FrameOf(<<TextTitle>>), FrameOf(<<TextTitle, RectBTN>>),
     [type |-> "GROUP"]}

OtherNodeId == <<"9", ":", "9">>

\* What the GET of the design API can end in, for the node id asked for.
FigmaOutcomes(node_id) ==
    {[kind |-> k] : k \in {"http_error", "url_error", "bad_json"}}
    \cup {[kind |-> "ok", data |-> d] :
            d \in {EmptyDict, [nodes |-> EmptyDict],
                   [nodes |-> [k \in {node_id} |-> EmptyDict]],
                   [nodes |-> [k \in {node_id} |-> [document |-> EmptyDict]]]}}
    \cup {[kind |-> "ok", data |-> [nodes |-> [k \in {i} |-> [document |-> t]]]] :
            i \in {node_id, OtherNodeId}, t \in HandlerTrees}

GoodItem1 == JsonObject([id |-> 1, description |-> [ai |-> "d1"], logic |-> [ai |-> "l1"]])

\* What the POST to the completion API can end in, as the handler sees it.
HandlerOutcomes ==
    {[kind |-> k] : k \in {"http_error", "url_error", "bad_response"}}
    \cup {[kind |-> "content", content |-> c] :
            c \in {<<LBracket, GoodItem1, RBracket>>,
                   <<Commentary, LBracket, GoodItem1, RBracket>>,
                   <<Commentary>>, <<JsonObject(EmptyDict)>>}}

NotFetched == [fetched |-> FALSE]
NoResponse == [statusCode |-> 0]
NoCalls == [figma |-> 0, deepseek |-> 0]
NoReplies == [figma |-> [kind |-> "none"], deepseek |-> [kind |-> "none"]]

(***************************************************************************)
(* Specification of the handler: one action per stretch of code between    *)
(* blocking outbound calls.                                                *)
(***************************************************************************)
Init ==
    /\ pc = "start"
    /\ event \in Events
    /\ env \in Envs
    /\ figma_data = NotFetched
    /\ elements = <<>>
    /\ response = NoResponse
    /\ calls = NoCalls
    /\ inflight = {}
    /\ reply = NoReplies
    /\ name = Idle /\ sanitized = Idle /\ resanitized = Idle /\ node = Idle

\* handler() from its entry to the return of an early response or to the
\* GET issued by fetch_figma_node.
HandlerBegin ==
    /\ pc = "start"
    /\ LET b == BeforeFetch(event, env)
       IN  IF b.respond
           THEN /\ response' = b.response
                /\ pc' = "done"
                /\ UNCHANGED <<calls, inflight>>
           ELSE /\ calls' = [calls EXCEPT !.figma = @ + 1]
                /\ inflight' = inflight \cup {"figma"}
                /\ pc' = "figma_wait"
                /\ UNCHANGED response
    /\ UNCHANGED <<event, env, figma_data, elements, name, sanitized, resanitized,
                   node, reply>>

\* The GET returns or fails; the handler runs on to its 404, to its except
\* clause, to the 200 of an empty element list, or to the POST issued by
\* call_deepseek_api.
FigmaReturns ==
    /\ pc = "figma_wait"
    /\ \E outcome \in FigmaOutcomes(BeforeFetch(event, env).node_id) :
        LET fetched == fetch_figma_node(BeforeFetch(event, env).node_id, outcome)
        IN  /\ reply' = [reply EXCEPT !.figma = outcome]
            /\ IF fetched.raised
               THEN /\ response' = InternalError(fetched.exception)
                    /\ pc' = "done"
                    /\ inflight' = inflight \ {"figma"}
                    /\ UNCHANGED <<figma_data, elements, calls>>
               ELSE /\ figma_data' = fetched.node_data
                    /\ IF IsEmptyMapping(fetched.node_data)
                       THEN /\ response' = ErrorResponse(404, "Failed to fetch Figma data. Check your token and URL")
                            /\ pc' = "done"
                            /\ inflight' = inflight \ {"figma"}
                            /\ UNCHANGED <<elements, calls>>
                       ELSE /\ elements' = extract_ui_elements(fetched.node_data)
                            /\ IF NeedsNoCall(extract_ui_elements(fetched.node_data))
                               THEN /\ response' = Success(extract_ui_elements(fetched.node_data),
                                                         FrameName(fetched.node_data))
                                    /\ pc' = "done"
                                    /\ inflight' = inflight \ {"figma"}
                                    /\ UNCHANGED calls
                               ELSE /\ calls' = [calls EXCEPT !.deepseek = @ + 1]
                                    /\ inflight' = (inflight \ {"figma"}) \cup {"deepseek"}
                                    /\ pc' = "deepseek_wait"
                                    /\ UNCHANGED response
    /\ UNCHANGED <<event, env, name, sanitized, resanitized, node>>

\* The POST returns or fails; enhance_with_deepseek finishes either way and
\* the handler renders and returns 200.
DeepseekReturns ==
    /\ pc = "deepseek_wait"
    /\ \E outcome \in HandlerOutcomes :
        /\ reply' = [reply EXCEPT !.deepseek = outcome]
        /\ elements' = EnhanceWithReply(elements, outcome)
        /\ response' = Success(EnhanceWithReply(elements, outcome), FrameName(figma_data))
    /\ inflight' = inflight \ {"deepseek"}
    /\ pc' = "done"
    /\ UNCHANGED <<event, env, figma_data, calls, name, sanitized, resanitized, node>>

Next == HandlerBegin \/ FigmaReturns \/ DeepseekReturns

Spec == Init /\ [][Next]_vars

(***************************************************************************)
(* Specification of enhance_with_deepseek on bounded replies.              *)
(***************************************************************************)
InitEnhance ==
    /\ pc = "start"
    /\ elements \in EnricherInputs
    /\ reply = NoReplies
    /\ calls = NoCalls
    /\ inflight = {}
    /\ event = Idle /\ env = Idle /\ figma_data = Idle /\ response = Idle
    /\ name = Idle /\ sanitized = Idle /\ resanitized = Idle /\ node = Idle

\* enhance_with_deepseek from its entry to the early return for an empty
\* list or to the POST issued by call_deepseek_api.
EnhanceBegin ==
    /\ pc = "start"
    /\ IF NeedsNoCall(elements)
       THEN /\ pc' = "done"
            /\ UNCHANGED <<calls, inflight>>
       ELSE /\ calls' = [calls EXCEPT !.deepseek = @ + 1]
            /\ inflight' = inflight \cup {"deepseek"}
            /\ pc' = "deepseek_wait"
    /\ UNCHANGED <<event, env, figma_data, elements, response, name, sanitized,
                   resanitized, node, reply>>

\* The POST returns or fails and the try/except runs to its return.
EnhanceReturns ==
    /\ pc = "deepseek_wait"
    /\ \E outcome \in Outcomes(MaxReplyLen) :
        /\ reply' = [reply EXCEPT !.deepseek = outcome]
        /\ elements' = EnhanceWithReply(elements, outcome)
    /\ inflight' = inflight \ {"deepseek"}
    /\ pc' = "done"
    /\ UNCHANGED <<event, env, figma_data, response, calls, name, sanitized,
                   resanitized, node>>

NextEnhance == EnhanceBegin \/ EnhanceReturns

SpecEnhance == InitEnhance /\ [][NextEnhance]_vars

(***************************************************************************)
(* Specification of sanitize_name on bounded names.                        *)
(***************************************************************************)
NameChars == {"a", "B", "7", "_", "-", " "}
Names == UNION {[1..k -> NameChars] : k \in 0..MaxNameLen}

InitSanitize ==
    /\ pc = "start"
    /\ name \in Names
    /\ sanitized = Idle /\ resanitized = Idle
    /\ event = Idle /\ env = Idle /\ figma_data = Idle /\ elements = Idle
    /\ response = Idle /\ calls = Idle /\ inflight = Idle
    /\ node = Idle /\ reply = Idle

Sanitize ==
    /\ pc = "start"
    /\ sanitized' = sanitize_name(name)
    /\ pc' = "once"
    /\ UNCHANGED <<event, env, figma_data, elements, response, calls, inflight,
                   name, resanitized, node, reply>>

SanitizeAgain ==
    /\ pc = "once"
    /\ resanitized' = sanitize_name(sanitized)
    /\ pc' = "done"
    /\ UNCHANGED <<event, env, figma_data, elements, response, calls, inflight,
                   name, sanitized, node, reply>>

NextSanitize == Sanitize \/ SanitizeAgain

SpecSanitize == InitSanitize /\ [][NextSanitize]_vars

(***************************************************************************)
(* Specification of extract_ui_elements on bounded trees.                  *)
(***************************************************************************)
InitExtract ==
    /\ pc = "start"
    /\ node \in TreesUpTo(MaxNodes)
    /\ elements = Idle
    /\ event = Idle /\ env = Idle /\ figma_data = Idle
    /\ response = Idle /\ calls = Idle /\ inflight = Idle
    /\ name = Idle /\ sanitized = Idle /\ resanitized = Idle /\ reply = Idle

Extract ==
    /\ pc = "start"
    /\ elements' = extract_ui_elements(node)
    /\ pc' = "done"
    /\ UNCHANGED <<event, env, figma_data, response, calls, inflight,
                   name, sanitized, resanitized, node, reply>>

NextExtract == Extract

SpecExtract == InitExtract /\ [][NextExtract]_vars

(***************************************************************************)
(* Claims about sanitize_name and extract_ui_elements.                     *)
(***************************************************************************)

\* C7: sanitize_name is idempotent: sanitizing an already sanitized name
\* (the fallback 'element' included) gives the same name again.
C7_SanitizeIdempotent == pc = "done" => resanitized = sanitized

\* C7 witness: a name made only of non-alphanumeric characters was
\* sanitized to the fallback and sanitized once more.
C7_Witness ==
    /\ pc = "done"
    /\ Len(name) >= 2
    /\ \A i \in DOMAIN name : name[i] \in {"-", " ", "_"}
    /\ sanitized = ElementLiteral

\* C1: the ids of the list returned by extract_ui_elements(root) are
\* exactly 1..N, N the length of the list, and the element at position k
\* has id k.
C1_IdsContiguous ==
    pc = "done" =>
        /\ \A k \in DOMAIN elements : elements[k].id = k
        /\ {elements[k].id : k \in DOMAIN elements} = 1..Len(elements)

\* C1 witness: a tree gave several elements, the second with id 2.
C1_Witness ==
    /\ pc = "done"
    /\ Len(elements) >= 2
    /\ elements[2].id = 2
    /\ Get(node, "children", <<>>) # <<>>

\* The walk the extractor is specified by: depth first, children left to
\* right, one (classified type, raw name) pair per emitted node.
RECURSIVE ReferenceWalk(_)
RECURSIVE ReferenceWalkAll(_)

ReferenceWalkAll(nodes) ==
    IF nodes = <<>> THEN <<>>
    ELSE ReferenceWalk(Head(nodes)) \o ReferenceWalkAll(Tail(nodes))

ReferenceWalk(n) ==
    LET t == IF "type" \in DOMAIN n THEN n.type ELSE ""
        raw == IF "name" \in DOMAIN n THEN n.name ELSE Unnamed
        low == IF "name" \in DOMAIN n THEN Lower(n.name) ELSE <<>>
        radius == IF "cornerRadius" \in DOMAIN n THEN n.cornerRadius ELSE 0
        kids == IF "children" \in DOMAIN n THEN n.children ELSE <<>>
    IN  CASE t = "TEXT" -> << <<"text", raw>> >>
          [] t \in {"VECTOR", "BOOLEAN_OPERATION", "STAR", "LINE", "ELLIPSE"} ->
                << <<"icon", raw>> >>
          [] t = "RECTANGLE" ->
                IF \/ Contains(low, <<"b","u","t","t","o","n">>)
                   \/ Contains(low, <<"b","t","n">>)
                   \/ radius > 0
                THEN << <<"button", raw>> >>
                ELSE << <<"card", raw>> >>
          [] OTHER -> ReferenceWalkAll(kids)

\* C6: the (classified type, raw name) pairs of extract_ui_elements are
\* those of the reference depth-first, left-to-right walk; containers and
\* unknown types emit nothing and are descended into, TEXT gives text, the
\* five vector types give icon, RECTANGLE gives button or card.
C6_MatchesReferenceWalk ==
    pc = "done" =>
        [k \in DOMAIN elements |-> <<elements[k].type, elements[k].raw_name>>]
            = ReferenceWalk(node)

\* C6 witness: an unknown node type was descended into and its children
\* came out in order, a button (by upper-case name) before a text.
C6_Witness ==
    /\ pc = "done"
    /\ Get(node, "type", "") = "SLICE"
    /\ Len(elements) = 2
    /\ elements[1].type = "button" /\ elements[1].raw_name = NameBTN
    /\ elements[2].type = "text"

(***************************************************************************)
(* Claims about enhance_with_deepseek.                                     *)
(***************************************************************************)
\* What json.loads made of the text call_deepseek_api returned, for a
\* reply that carried a message content.
ParsedReply(o) == json_loads(call_deepseek_api(o).text)

\* The parsed output is an array of objects each carrying an id.
ArrayOfIdObjects(v) ==
    /\ v.tok = "array"
    /\ \A i \in DOMAIN v.items :
          v.items[i].tok = "object" /\ "id" \in DOMAIN v.items[i].fields

\* The call threw, the reply did not parse, or the output is malformed.
EnrichmentFailed(o) ==
    \/ o.kind # "content"
    \/ ~ParsedReply(o).ok
    \/ ~ArrayOfIdObjects(ParsedReply(o).value)

\* The fields of the last object of items that carries this id, or the
\* empty mapping.
RECURSIVE LastWithId(_, _)
LastWithId(items, id) ==
    IF items = <<>> THEN EmptyDict
    ELSE LET last == items[Len(items)]
         IN  IF last.tok = "object" /\ "id" \in DOMAIN last.fields /\ last.fields.id = id
             THEN last.fields
             ELSE LastWithId(SubSeq(items, 1, Len(items) - 1), id)

ItemsOf(v) == IF v.tok = "array" THEN v.items ELSE <<>>

\* C2: on a non-empty list, when the call throws, the reply does not parse
\* or the parsed output is not an array of objects with ids, every element
\* ends with the fallback description (type and raw name) and fallback
\* logic of the except branch.
C2_FailureGivesFallbackToAll ==
    (pc = "done" /\ reply.deepseek.kind # "none" /\ EnrichmentFailed(reply.deepseek)) =>
        \A i \in DOMAIN elements :
            /\ elements[i].description =
                  [template |-> "Element {type}: {raw_name}",
                   type |-> elements[i].type, raw_name |-> elements[i].raw_name]
            /\ elements[i].logic = [text |-> "basic interaction with the element"]

\* The reply was parsed and the id lookup was built without an exception.
LookupBuilt(o) ==
    /\ o.kind = "content"
    /\ ParsedReply(o).ok
    /\ ~BuildAiMap(ParsedReply(o).value).raised

\* C8 as stated: with the lookup built, an element whose id is in the
\* lookup gets the model's description and logic, and an element whose id
\* is absent gets fallback text templated from its type and its raw name.
C8_AbsentIdGetsTypeAndRawName ==
    (pc = "done" /\ LookupBuilt(reply.deepseek)) =>
        \A i \in DOMAIN elements :
            LET info == LastWithId(ItemsOf(ParsedReply(reply.deepseek).value), elements[i].id)
            IN  IF "id" \in DOMAIN info
                THEN /\ "description" \in DOMAIN info
                     /\ elements[i].description = info.description
                     /\ "logic" \in DOMAIN info
                     /\ elements[i].logic = info.logic
                ELSE elements[i].description =
                        [template |-> "Element {type}: {raw_name}",
                         type |-> elements[i].type, raw_name |-> elements[i].raw_name]

\* C8 amended: with the lookup built, each of description and logic is the
\* model's value when the object for the element's id carries that key;
\* otherwise (id absent, or key absent) the description is the default
\* templated from the classified type alone and the logic is the default
\* logic literal.
C8_AbsentIdGetsTypeOnlyDefault ==
    (pc = "done" /\ LookupBuilt(reply.deepseek)) =>
        \A i \in DOMAIN elements :
            LET info == LastWithId(ItemsOf(ParsedReply(reply.deepseek).value), elements[i].id)
            IN  /\ elements[i].description =
                      IF "description" \in DOMAIN info THEN info.description
                      ELSE [template |-> "Element {type}", type |-> elements[i].type]
                /\ elements[i].logic =
                      IF "logic" \in DOMAIN info THEN info.logic
                      ELSE [text |-> "standard interaction"]

\* C8 witness: of two elements, the first got the model's texts for id 1
\* and the second, whose id the reply does not mention, got the default.
C8_Witness ==
    /\ pc = "done"
    /\ LookupBuilt(reply.deepseek)
    /\ Len(elements) = 2
    /\ elements[1].description = [ai |-> "d1"]
    /\ elements[1].logic = [ai |-> "l1"]
    /\ elements[2].description = [template |-> "Element {type}", type |-> "button"]

\* The positions at which a well-formed array of {id, description, logic}
\* objects starts in the content.
WellFormedArrayStarts(content) ==
    {i \in DOMAIN content :
        /\ content[i] = LBracket
        /\ ParseValue(content, i).ok
        /\ ParseValue(content, i).value.items # <<>>
        /\ \A k \in DOMAIN ParseValue(content, i).value.items :
              LET item == ParseValue(content, i).value.items[k]
              IN  item.tok = "object" /\ DOMAIN item.fields = {"id", "description", "logic"}}

\* C9: when the content holds a well-formed array of {id, description,
\* logic} objects, with whatever commentary around it, the elements named
\* in the first such array end with its description and logic.
C9_FirstWellFormedArrayIsUsed ==
    (/\ pc = "done"
     /\ reply.deepseek.kind = "content"
     /\ WellFormedArrayStarts(reply.deepseek.content) # {}) =>
        LET starts == WellFormedArrayStarts(reply.deepseek.content)
            first == CHOOSE i \in starts : \A j \in starts : i <= j
            items == ParseValue(reply.deepseek.content, first).value.items
        IN  \A i \in DOMAIN elements :
                LET info == LastWithId(items, elements[i].id)
                IN  "id" \in DOMAIN info =>
                        /\ elements[i].description = info.description
                        /\ elements[i].logic = info.logic

(***************************************************************************)
(* Claims about the handler.                                               *)
(***************************************************************************)
Method == IF "httpMethod" \in DOMAIN event THEN event.httpMethod ELSE "GET"

\* The body is a JSON object whose figmaUrl, if any, is a string.
BodyReadable ==
    \/ "body" \notin DOMAIN event
    \/ /\ event.body.py = "str"
       /\ event.body.json.ok
       /\ event.body.json.value.type = "dict"
       /\ \/ "figmaUrl" \notin DOMAIN event.body.json.value.fields
          \/ event.body.json.value.fields.figmaUrl.type = "str"

\* The figmaUrl of a readable body, before stripping.
GivenUrl ==
    IF "body" \in DOMAIN event /\ "figmaUrl" \in DOMAIN event.body.json.value.fields
    THEN event.body.json.value.fields.figmaUrl.chars
    ELSE <<>>

UrlIsBlank == \A i \in DOMAIN GivenUrl : GivenUrl[i] = " "

UrlYieldsBoth ==
    /\ parse_figma_url(Strip(GivenUrl)).file_key.matched
    /\ parse_figma_url(Strip(GivenUrl)).node_id.matched

HasFigmaToken == "FIGMA_ACCESS_TOKEN" \in DOMAIN env /\ env.FIGMA_ACCESS_TOKEN # ""
HasDeepseekKey == "DEEPSEEK_API_KEY" \in DOMAIN env /\ env.DEEPSEEK_API_KEY # ""

\* A POST that passed URL validation and both credential checks.
ValidRequest ==
    /\ Method = "POST"
    /\ BodyReadable /\ ~UrlIsBlank /\ UrlYieldsBoth
    /\ HasFigmaToken /\ HasDeepseekKey

\* The node id the fetcher asked for is not a key of the response's nodes.
NodeAbsent ==
    /\ reply.figma.kind = "ok"
    /\ \/ "nodes" \notin DOMAIN reply.figma.data
       \/ parse_figma_url(Strip(GivenUrl)).node_id.group \notin DOMAIN reply.figma.data.nodes

\* C3: for a valid POST, when the design API call fails (HTTP error or
\* API unreachable) or the node id is absent from the response, the
\* fetcher returns the empty mapping and the handler answers 404 with the
\* fetch-failed message.
C3_FetchFailureGives404 ==
    (/\ pc = "done"
     /\ ValidRequest
     /\ (reply.figma.kind \in {"http_error", "url_error"} \/ NodeAbsent)) =>
        /\ figma_data = EmptyDict
        /\ response = [statusCode |-> 404,
                       error |-> "Failed to fetch Figma data. Check your token and URL"]

\* A POST that is a client input error: missing or bad body, missing or
\* blank figmaUrl, or a figmaUrl that does not yield both identifiers.
ClientInputError ==
    /\ Method = "POST"
    /\ \/ ~BodyReadable
       \/ UrlIsBlank
       \/ ~UrlYieldsBoth

\* C4: every POST that is a client input error is answered with 400.
C4_ClientInputErrorGives400 ==
    (pc = "done" /\ ClientInputError) => response.statusCode = 400

\* C5: no API is called twice (no retry), the two calls never overlap, a
\* valid POST calls the design API exactly once, the language model is
\* called only after the design API returned a non-empty node, and then
\* exactly once when the extracted list is non-empty and not at all when
\* it is empty.
C5_CallsOnceInSequence ==
    /\ calls.figma <= 1 /\ calls.deepseek <= 1
    /\ Cardinality(inflight) <= 1
    /\ (ValidRequest /\ pc # "start") => calls.figma = 1
    /\ calls.deepseek > 0 =>
          /\ "figma" \notin inflight
          /\ reply.figma.kind = "ok"
          /\ figma_data # NotFetched /\ DOMAIN figma_data # {}
    /\ (figma_data # NotFetched /\ DOMAIN figma_data # {}) =>
          calls.deepseek = IF ReferenceWalk(figma_data) = <<>> THEN 0 ELSE 1

\* C5 witness: both calls were made once, the second failed and the
\* request ended without another attempt.
C5_Witness ==
    /\ pc = "done"
    /\ calls = [figma |-> 1, deepseek |-> 1]
    /\ reply.deepseek.kind = "http_error"
    /\ response.statusCode = 200

====
